---- MODULE Spec2Model ----
(***************************************************************************)
(* Model of the fjord wind tracker: the useWindTracker hook                *)
(* (src/src/hooks/useWindTracker.ts) and the alert effect and trend labels *)
(* of the WindTracker page (src/src/pages/Index.tsx).                      *)
(*                                                                         *)
(* Numbers.  Wind speeds are integers in units of 0.001 m/s, rider weight  *)
(* is in kg, the clock is in milliseconds.  A call of Math.random() is an  *)
(* index u in 0..RandRes-1 standing for the value u/RandRes of [0, 1).     *)
(* Fields of a payload that no derived value reads (direction, humidity,   *)
(* pressure, rain, temperature, stationName, unit) are left out.           *)
(*                                                                         *)
(* Time.  Every step happens at a time `now`; steps are taken in the order *)
(* of their times.  A fetch settles AnswerMs after it was issued, or is    *)
(* aborted fetchTimeoutMs after it was issued; the interval timer fires    *)
(* pollIntervalMs after the effect was set up and after each firing.       *)
(* Synchronous code takes no time.                                         *)
(***************************************************************************)
EXTENDS Integers, Sequences, FiniteSets, TLC

VARIABLES
    mounted,        \* the component using the hook is mounted
    baseUrl,        \* the baseUrl prop of the hook ("" = not configured)
    effectGen,      \* number of times the polling effect has been set up (0 = not yet)
    timer,          \* when the setInterval timer of the current effect fires next (0 = none armed)
    closure,        \* what the fetchAll captured by the current effect sees: [baseUrl, current, historic]
    current,        \* React state `current`, as every reader sees it
    historic,       \* React state `historic`, as every reader sees it
    cycles,         \* the fetchAll invocations suspended at an await
    nCycles,        \* number of fetchAll invocations started so far
    escaped,        \* number of errors that escaped a fetchAll invocation
    lastAlert,      \* lastAlertRef.current
    toasts,         \* number of "wind building" toasts raised
    now,            \* Date.now()
    args,           \* input of the pure function under check
    res             \* its result

vars == <<mounted, baseUrl, effectGen, timer, closure, current, historic,
          cycles, nCycles, escaped,
          lastAlert, toasts, now, args, res>>

None == [none |-> TRUE]

\* ------------------------------------------------------------------ bounds
RandRes == 4          \* resolution of the random source
MaxCycles == 2        \* the interval timer fires while fewer invocations have started
MaxInFlight == 2      \* fetchAll invocations suspended at the same time
MaxConfigChanges == 1 \* changes of baseUrl per behaviour
ClockTicks == 12      \* poll intervals the clock advances while the alert is observed
AnswerMs == 400       \* time a fetch takes that settles before its timeout

\* ------------------------------------------------------------- the catalog
STATIONS == [drobak |-> [id |-> 101], lysaker |-> [id |-> 201]]
stations == <<"drobak", "lysaker">>
Ids == {STATIONS[stations[i]].id : i \in 1..Len(stations)}
EmptyMap == [id \in Ids |-> None]

\* ----------------------------------------------------------- pure helpers
Min2(a, b) == IF a <= b THEN a ELSE b
Max2(a, b) == IF a >= b THEN a ELSE b

\* a dateTime is its separator: "T" (ISO) or " " ("YYYY-MM-DD HH:mm:ss")
toISO(dateTime) == IF dateTime = "T" THEN dateTime ELSE "T"

randBetween(min, max, u) == (u * (max - min)) \div RandRes + min

clamp(n, min, max) == Min2(max, Max2(min, n))

\* toFixed(2) of a non-negative number, then Number(): nearest 0.01
toFixed2(x) == ((x + 5) \div 10) * 10

\* ---------------------------------------------------------------- simulator
\* (variant: the new speed is not clamped)
simulateCurrentUnclamped(station, prev, u) ==
    LET baseSpeed == IF station = "drobak" THEN 5000 ELSE 3000
        drift == IF station = "drobak" THEN randBetween(-300, 900, u.drift)
                                       ELSE randBetween(-400, 600, u.drift)
        prevSpeed == IF prev # None THEN prev.speed
                                    ELSE baseSpeed + randBetween(-1000, 1000, u.noise)
        speed == prevSpeed + drift
        gust == clamp(speed + randBetween(200, 2500, u.gust), speed, speed + 4000)
        min == clamp(speed - randBetween(100, 1000, u.min), 0, speed)
    IN  [stationId |-> STATIONS[station].id, dateTime |-> "T",
         speed |-> speed, gust |-> gust, min |-> min, src |-> "sim"]

\* u = [noise, drift, gust, min]: the Math.random() draws in call order
simulateCurrent(station, prev, u) ==
    LET baseSpeed == IF station = "drobak" THEN 5000 ELSE 3000
        drift == IF station = "drobak" THEN randBetween(-300, 900, u.drift)
                                       ELSE randBetween(-400, 600, u.drift)
        prevSpeed == IF prev # None THEN prev.speed
                                    ELSE baseSpeed + randBetween(-1000, 1000, u.noise)
        speed == clamp(prevSpeed + drift, 0, 20000)
        gust == clamp(speed + randBetween(200, 2500, u.gust), speed, speed + 4000)
        min == clamp(speed - randBetween(100, 1000, u.min), 0, speed)
    IN  [stationId |-> STATIONS[station].id, dateTime |-> "T",
         speed |-> speed, gust |-> gust, min |-> min, src |-> "sim"]

\* the loop of simulateHistoric; every iteration draws u.speed, then u.gust
RECURSIVE simulateHistoricLoop(_, _, _, _, _)
simulateHistoricLoop(i, speed, gust, pts, u) ==
    IF i < 0 THEN pts
    ELSE LET s == clamp(speed + randBetween(-500, 600, u.speed), 0, 22000)
             g == clamp(Max2(gust, s) + randBetween(-400, 900, u.gust), s, s + 5000)
         IN  simulateHistoricLoop(i - 5, s, g,
                 Append(pts, [speed |-> toFixed2(s), gust |-> toFixed2(g)]), u)

simulateHistoric(cur, minutes, u) ==
    [src |-> "sim", pts |-> simulateHistoricLoop(minutes, cur.speed, cur.gust, <<>>, u)]

\* ------------------------------------------------------------------ fetcher
FetchOutcomes == {"ok", "timeout", "network", "http", "json"}

\* fetchJSON: the body on a 2xx response; an abort (timeout), a network error,
\* a non-2xx status and a body that is no JSON all throw
fetchJSON(outcome, body) ==
    IF outcome = "ok" THEN [threw |-> FALSE, value |-> body]
                      ELSE [threw |-> TRUE, value |-> None]

\* the abort timer of fetchJSON, and the time a fetch takes to settle: a
\* fetch that times out is aborted when the abort timer fires
fetchTimeoutMs == 8000
fetchMs(outcome) == IF outcome = "timeout" THEN fetchTimeoutMs ELSE AnswerMs

\* ----------------------------------------------------------- derived values
DefaultLookback == 6
distanceKm == 25
DefaultMinutes == 180

\* (variant: the tail starts one point early)
slopeOffByOne(points, lookback) ==
    IF Len(points) <= lookback THEN [num |-> 0, den |-> 1]
    ELSE LET tail == SubSeq(points, Len(points) - lookback, Len(points))
         IN  [num |-> tail[Len(tail)].speed - tail[1].speed, den |-> lookback]

\* slope of a series as the exact fraction num/den (den > 0), for lookback >= 1
slope(points, lookback) ==
    IF Len(points) < lookback THEN [num |-> 0, den |-> 1]
    ELSE LET tail == SubSeq(points, Len(points) - lookback + 1, Len(points))
             first == tail[1].speed
             last == tail[Len(tail)].speed
         IN  [num |-> last - first, den |-> lookback]

\* q > 0.08 m/s per sample, for a fraction q
Above008(q) == q.num > 80 * q.den

drobakHist(hist) == IF hist[STATIONS.drobak.id] = None THEN <<>> ELSE hist[STATIONS.drobak.id].pts
lysakerHist(hist) == IF hist[STATIONS.lysaker.id] = None THEN <<>> ELSE hist[STATIONS.lysaker.id].pts

drobakSlope(hist) == slope(drobakHist(hist), DefaultLookback)
lysakerSlope(hist) == slope(lysakerHist(hist), DefaultLookback)

isBuildingAtDrobak(cur, hist) ==
    LET drobak == cur[STATIONS.drobak.id]
    IN  IF drobak # None THEN Above008(drobakSlope(hist)) /\ drobak.speed >= 4000
                         ELSE FALSE

\* etaMinutes is null, or [null |-> FALSE, min |-> minutes]
Null == [null |-> TRUE, min |-> 0]

\* (variant: Math.floor)
FloorDiv(a, b) == a \div b

\* Math.round of the positive fraction a/b
RoundDiv(a, b) == (2 * a + b) \div (2 * b)

\* frontKmh in units of 1/2000 km/h, so that spd * 1.5 stays exact
etaMinutes(cur, hist) ==
    LET drobak == cur[STATIONS.drobak.id]
        spd == IF drobak # None THEN drobak.speed ELSE 0
    IN  IF ~isBuildingAtDrobak(cur, hist) \/ spd <= 500 THEN Null
        ELSE LET frontKmh == clamp(20000 + spd * 3, 16000, 90000)
             IN  [null |-> FALSE, min |-> RoundDiv(distanceKm * 60 * 2000, frontKmh)]

\* Array.prototype.at(-6)?.speed ?? 0
AtMinus6Speed(pts) == IF Len(pts) >= 6 THEN pts[Len(pts) - 6 + 1].speed ELSE 0

\* (variant: the label follows the slope of the series)
lysakerTrendBySlope(cur, hist) == Above008(lysakerSlope(hist))

\* the sub-label of the Lysaker "Trend" InfoStat
lysakerTrendBuilding(cur, hist) ==
    LET lysaker == cur[STATIONS.lysaker.id]
        spd == IF lysaker # None THEN lysaker.speed ELSE 0
    IN  spd - AtMinus6Speed(lysakerHist(hist)) > 80

\* ------------------------------------------------------------ gear estimator
\* sail in units of 0.00001 m2, board and fin in units of 0.0001 cm while
\* computing; the result is sailM2 in 0.001 m2 and whole centimetres
toFixed1(x) == ((x + 50) \div 100) * 100

\* (variant: the sail area is not clamped)
recommendGearSailUnclamped(weightKg, windMs) ==
    LET sail == 1200000 - 45 * windMs - 1200 * (weightKg - 75)
        boardWidth == clamp(1120000 - 32 * windMs - 1200 * (weightKg - 75), 580000, 1000000)
        fin == clamp(540000 - 22 * windMs, 280000, 520000)
    IN  [sailM2 |-> toFixed1(((sail + 10000) \div 20000) * 200),
         boardWidthCm |-> (boardWidth + 5000) \div 10000,
         finCm |-> (fin + 5000) \div 10000]

recommendGear(weightKg, windMs) ==
    LET sail == clamp(1200000 - 45 * windMs - 1200 * (weightKg - 75), 400000, 980000)
        boardWidth == clamp(1120000 - 32 * windMs - 1200 * (weightKg - 75), 580000, 1000000)
        fin == clamp(540000 - 22 * windMs, 280000, 520000)
    IN  [sailM2 |-> toFixed1(((sail + 10000) \div 20000) * 200),
         boardWidthCm |-> (boardWidth + 5000) \div 10000,
         finCm |-> (fin + 5000) \div 10000]

\* ------------------------------------------------------- the remote API
Pt(s, g) == [speed |-> s, gust |-> g]
Ramp(n, start, step) == [i \in 1..n |-> Pt(start + (i - 1) * step, start + (i - 1) * step + 1000)]

\* bodies GET {base}/current?stationId={id} may answer with
ApiCurrent(id) ==
    IF id = STATIONS.drobak.id
    THEN {[stationId |-> id, dateTime |-> " ", speed |-> 6000, gust |-> 7500, min |-> 5000, src |-> "api"]}
    ELSE {[stationId |-> id, dateTime |-> "T", speed |-> 2500, gust |-> 3000, min |-> 2000, src |-> "api"]}

\* bodies GET {base}/historic?stationId={id}&hours=6 may answer with
ApiHistoric(id) ==
    IF id = STATIONS.drobak.id
    THEN {[src |-> "api", pts |-> Ramp(7, 4000, 300)]}
    ELSE {[src |-> "api", pts |-> Ramp(6, 2000, 0)]}

\* the draws of the random source the tracker's behaviours are explored with:
\* within one fetchAll invocation every Math.random() call yields the same
Draws == {0, RandRes - 1}
UCur(d) == [noise |-> d, drift |-> d, gust |-> d, min |-> d]
UHist(d) == [speed |-> d, gust |-> d]

\* ------------------------------------------------------------------ tracker
CycOf(e) == IF e = None THEN 0 ELSE e.cyc

\* bookkeeping put on an entry: the cycle and effect that produced it, whether
\* the fetch for it answered 2xx (c.ok, noted when the fetch settles), and for
\* a simulated reading the cycle of the seed passed to the simulator and of
\* the reading stored at that moment
Stamp(e, c, seed, stored) ==
    e @@ [cyc |-> c.cyc, gen |-> c.gen, fetched |-> c.ok,
          seedCyc |-> CycOf(seed), storedCyc |-> CycOf(stored)]

\* a fetchAll invocation at its start: the closure's state spread into the
\* next maps, first station, current reading; at is the time its pending fetch
\* was issued
newCycle(cl, n, g, d, nowv) ==
    [cyc |-> n, gen |-> g, draw |-> d, baseUrl |-> cl.baseUrl, current |-> cl.current,
     k |-> 1, phase |-> "current", ok |-> FALSE, at |-> nowv,
     nextCurrent |-> cl.current, nextHistoric |-> cl.historic, threw |-> FALSE]

\* (variant: the first try has no catch, a failed fetch rejects fetchAll)
tryCurrentNoCatch(c, r, stored) ==
    LET id == STATIONS[stations[c.k]].id
    IN  IF c.baseUrl # "" /\ r.threw
        THEN [c EXCEPT !.threw = TRUE]
        ELSE [c EXCEPT !.phase = "historic",
                       !.nextCurrent[id] =
                           IF c.baseUrl # ""
                           THEN Stamp([r.value EXCEPT !.dateTime = toISO(@)], c, None, None)
                           ELSE Stamp(simulateCurrent(stations[c.k], c.current[id], UCur(c.draw)), c,
                                      c.current[id], stored[id])]

\* first try/catch of the loop body: r is the outcome of fetchJSON (unused
\* without a base URL), stored the readings in the tracker state right now
tryCurrent(c, r, stored) ==
    LET key == stations[c.k]
        id == STATIONS[key].id
        sim == Stamp(simulateCurrent(key, c.current[id], UCur(c.draw)), c,
                     c.current[id], stored[id])
    IN  [c EXCEPT !.phase = "historic",
                  !.nextCurrent[id] =
                      IF c.baseUrl # ""
                      THEN IF r.threw THEN sim
                           ELSE Stamp([r.value EXCEPT !.dateTime = toISO(@)], c, None, None)
                      ELSE sim]

\* second try/catch of the loop body, and the loop's step
tryHistoric(c, r) ==
    LET key == stations[c.k]
        id == STATIONS[key].id
        sim == Stamp(simulateHistoric(c.nextCurrent[id], DefaultMinutes, UHist(c.draw)), c, None, None)
    IN  [c EXCEPT !.phase = "current", !.k = c.k + 1,
                  !.nextHistoric[id] =
                      IF c.baseUrl # ""
                      THEN IF r.threw THEN sim ELSE Stamp(r.value, c, None, None)
                      ELSE sim]

NoFetch == [threw |-> FALSE, value |-> None]

\* fetchAll without a base URL: no await is reached, the loop runs through
RECURSIVE runSim(_, _)
runSim(c, stored) ==
    IF c.k > Len(stations) THEN c
    ELSE runSim(tryHistoric(tryCurrent(c, NoFetch, stored), NoFetch), stored)

\* (variant: a render between the two calls shows the new readings with the
\* old series)
setStatesTorn(c, st, isMounted) ==
    IF isMounted THEN [current |-> c.nextCurrent, historic |-> st.historic]
                 ELSE st

\* setCurrent(nextCurrent); setHistoric(nextHistoric), both in one synchronous
\* stretch of fetchAll, so that React renders once with both updates (automatic
\* batching); React drops the updates of an unmounted component.  st is the
\* state [current, historic] before, the result the state rendered next
setStates(c, st, isMounted) ==
    IF isMounted THEN [current |-> c.nextCurrent, historic |-> c.nextHistoric]
                 ELSE st

\* ------------------------------------------------------- the page's alert
\* the throttle of the alert, and the default poll interval the page uses
FiveMinutes == 5 * 60000
pollIntervalMs == 30000

\* (variant: no throttle)
alertConditionNoThrottle(isBuilding, eta, nowv, last) ==
    isBuilding /\ ~eta.null /\ eta.min # 0

\* the condition of the alert effect (etaMinutes is tested for truthiness)
alertCondition(isBuilding, eta, nowv, last) ==
    isBuilding /\ ~eta.null /\ eta.min # 0 /\ nowv - last > FiveMinutes

\* the alert effect after a render took the state from (oc, oh) to (nc, nh):
\* it runs when one of its dependencies changed
alertRaised(oc, oh, nc, nh, nowv, last) ==
    /\ <<isBuildingAtDrobak(nc, nh), etaMinutes(nc, nh)>> # <<isBuildingAtDrobak(oc, oh), etaMinutes(oc, oh)>>
    /\ alertCondition(isBuildingAtDrobak(nc, nh), etaMinutes(nc, nh), nowv, last)

\* a render with state st = [current, historic] at time nowv, and the alert
\* effect after it
RenderWith(st, nowv) ==
    /\ current' = st.current
    /\ historic' = st.historic
    /\ IF alertRaised(current, historic, st.current, st.historic, nowv, lastAlert)
       THEN lastAlert' = nowv /\ toasts' = toasts + 1
       ELSE UNCHANGED <<lastAlert, toasts>>

State == [current |-> current, historic |-> historic]

\* Date.now() when the page mounts: any time more than five minutes after the
\* epoch lastAlertRef starts at
StartTime == FiveMinutes + pollIntervalMs

\* ------------------------------------------------------------------ actions
BaseUrls == {"", "https://api"}

Init ==
    /\ mounted = TRUE
    /\ baseUrl \in BaseUrls
    /\ effectGen = 0
    /\ timer = 0
    /\ closure = [baseUrl |-> baseUrl, current |-> EmptyMap, historic |-> EmptyMap]
    /\ current = EmptyMap
    /\ historic = EmptyMap
    /\ cycles = {}
    /\ nCycles = 0
    /\ escaped = 0
    /\ lastAlert = 0
    /\ toasts = 0
    /\ now = StartTime
    /\ args = None
    /\ res = None

\* the end of a fetchAll invocation c: an error escapes it, or it sets the
\* state and React renders
Finish(c, nowv) ==
    IF c.threw
    THEN /\ escaped' = escaped + 1
         /\ UNCHANGED <<current, historic, lastAlert, toasts>>
    ELSE /\ \E st \in {setStates(c, State, mounted)} : RenderWith(st, nowv)
         /\ UNCHANGED escaped

\* a call of fetchAll through closure cl by effect g at time nowv
StartFetchAll(cl, g, nowv) ==
    /\ nCycles' = nCycles + 1
    /\ \E d \in Draws :
           IF cl.baseUrl = ""
           THEN /\ \E c \in {runSim(newCycle(cl, nCycles + 1, g, d, nowv), current)} : Finish(c, nowv)
                /\ cycles' = cycles
           ELSE /\ cycles' = cycles \cup {newCycle(cl, nCycles + 1, g, d, nowv)}
                /\ UNCHANGED <<current, historic, lastAlert, toasts, escaped>>

\* the polling effect runs after the first render
MountEffect ==
    /\ mounted
    /\ effectGen = 0
    /\ closure' = [baseUrl |-> baseUrl, current |-> current, historic |-> historic]
    /\ effectGen' = 1
    /\ timer' = now + pollIntervalMs
    /\ StartFetchAll(closure', 1, now)
    /\ UNCHANGED <<mounted, baseUrl, now, args, res>>

\* the timer may fire next: it is armed, and within the bounds
TimerDue == timer # 0 /\ nCycles < MaxCycles /\ Cardinality(cycles) < MaxInFlight

\* no fetch in flight has reached its timeout before time t
NoneOverdue(t) == \A c \in cycles : c.at + fetchTimeoutMs >= t

\* the interval timer fires, one poll interval after the last time, whether
\* or not an earlier invocation of fetchAll is still suspended
Tick ==
    /\ TimerDue
    /\ timer >= now
    /\ NoneOverdue(timer)
    /\ now' = timer
    /\ timer' = timer + pollIntervalMs
    /\ StartFetchAll(closure, effectGen, now')
    /\ UNCHANGED <<mounted, baseUrl, effectGen, closure, args, res>>

\* the fetch a fetchAll invocation awaits settles, and the invocation runs on
\* to its next await or to its end
FetchResolve ==
    \E c \in cycles, outcome \in FetchOutcomes :
        LET id == STATIONS[stations[c.k]].id
            t == c.at + fetchMs(outcome)
        IN  /\ t >= now
            /\ NoneOverdue(t)
            /\ TimerDue => timer >= t
            /\ now' = t
            /\ \E body \in (IF c.phase = "current" THEN ApiCurrent(id) ELSE ApiHistoric(id)) :
                \E c2 \in {IF c.phase = "current"
                            THEN tryCurrent([c EXCEPT !.ok = (outcome = "ok")], fetchJSON(outcome, body), current)
                            ELSE tryHistoric([c EXCEPT !.ok = (outcome = "ok")], fetchJSON(outcome, body))} :
                    /\ IF c2.threw \/ c2.k > Len(stations)
                       THEN /\ cycles' = cycles \ {c}
                            /\ Finish(c2, t)
                       ELSE /\ cycles' = (cycles \ {c}) \cup {[c2 EXCEPT !.at = t]}
                            /\ UNCHANGED <<current, historic, lastAlert, toasts, escaped>>
                    /\ UNCHANGED <<mounted, baseUrl, effectGen, timer, closure, nCycles,
                                   args, res>>

\* the page sets another base URL: the cleanup of the polling effect and its
\* setup again, with the fetchAll of this render
ChangeBaseUrl ==
    \E new \in BaseUrls \ {baseUrl} :
        /\ mounted
        /\ effectGen >= 1
        /\ effectGen <= MaxConfigChanges
        /\ Cardinality(cycles) < MaxInFlight
        /\ baseUrl' = new
        /\ closure' = [baseUrl |-> new, current |-> current, historic |-> historic]
        /\ effectGen' = effectGen + 1
        /\ timer' = now + pollIntervalMs
        /\ StartFetchAll(closure', effectGen', now)
        /\ UNCHANGED <<mounted, now, args, res>>

\* the component unmounts: the cleanup of the polling effect
Unmount ==
    /\ mounted
    /\ effectGen >= 1
    /\ mounted' = FALSE
    /\ timer' = 0
    /\ UNCHANGED <<baseUrl, effectGen, closure, current, historic, cycles, nCycles,
                   escaped, lastAlert, toasts, now, args, res>>

Next ==
    \/ MountEffect
    \/ Tick
    \/ FetchResolve
    \/ ChangeBaseUrl
    \/ Unmount

Spec == Init /\ [][Next]_vars

\* ------------------------------------------------ the alert over time
\* the tracker state before anything but the inputs of the part under check
\* is drawn
Idle ==
    /\ mounted = TRUE
    /\ baseUrl = ""
    /\ effectGen = 0
    /\ timer = 0
    /\ closure = [baseUrl |-> "", current |-> EmptyMap, historic |-> EmptyMap]
    /\ current = EmptyMap
    /\ historic = EmptyMap
    /\ cycles = {}
    /\ nCycles = 0
    /\ escaped = 0
    /\ lastAlert = 0
    /\ toasts = 0
    /\ now = StartTime

Reading(id, speed) ==
    [stationId |-> id, dateTime |-> "T", speed |-> speed, gust |-> speed + 1000,
     min |-> speed, src |-> "api"]
Series(pts) == [src |-> "api", pts |-> pts]

\* tracker states a finished poll cycle may publish
UpstreamSpeeds == {0, 400, 500, 3999, 4000, 6000, 8000, 23400}
SeriesSet == {<<>>, Ramp(3, 4000, 300), Ramp(6, 5400, 120), Ramp(6, 5000, 96),
              Ramp(7, 4000, 300), Ramp(6, 2000, 0), Ramp(7, 6000, -200)}
AlertInputs ==
    {[current |-> [EmptyMap EXCEPT ![101] = Reading(101, sp)],
      historic |-> [EmptyMap EXCEPT ![101] = Series(pts)]] :
        sp \in {3000, 6000, 8000}, pts \in {Ramp(7, 4000, 300), Ramp(6, 2000, 0)}}

\* a poll cycle publishes and the page renders
AlertObserve ==
    /\ \E st \in AlertInputs : RenderWith(st, now)
    /\ UNCHANGED <<mounted, baseUrl, effectGen, timer, closure, cycles, nCycles,
                   escaped, now, args, res>>

\* a poll interval passes
Clock ==
    /\ now < StartTime + ClockTicks * pollIntervalMs
    /\ now' = now + pollIntervalMs
    /\ UNCHANGED <<mounted, baseUrl, effectGen, timer, closure, current, historic,
                   cycles, nCycles, escaped, lastAlert, toasts, args, res>>

InitAlert == Idle /\ args = None /\ res = None
NextAlert ==
    \/ AlertObserve
    \/ Clock
SpecAlert == InitAlert /\ [][NextAlert]_vars

\* ------------------------------------------------------ the simulator alone
TrackerUnchanged ==
    UNCHANGED <<mounted, baseUrl, effectGen, timer, closure, current, historic,
                cycles, nCycles, escaped, lastAlert, toasts, now>>

SimDraws == [noise : Draws, drift : 0..(RandRes - 1), gust : 0..(RandRes - 1), min : 0..(RandRes - 1)]
\* seeds: none, or a reading the API delivered (not validated)
SimSeeds == {None} \cup {Reading(101, sp) : sp \in {-1000, 0, 19500, 25000}}

\* one poll cycle simulates the station's reading from the stored one, which
\* the next cycle is seeded with
SimCall ==
    /\ \E u \in SimDraws :
           /\ res' = simulateCurrent(args.station, args.prev, u)
           /\ args' = [args EXCEPT !.prev = res']
    /\ TrackerUnchanged

InitSim ==
    /\ Idle
    /\ args \in [station : {"drobak", "lysaker"}, prev : SimSeeds]
    /\ res = None
SpecSim == InitSim /\ [][SimCall]_vars

\* ------------------------------------------------- the derived values alone
DerivedInputs ==
    {[current |-> [EmptyMap EXCEPT ![101] = d, ![201] = l],
      historic |-> [EmptyMap EXCEPT ![101] = dh, ![201] = lh]] :
        d \in {None} \cup {Reading(101, sp) : sp \in UpstreamSpeeds},
        l \in {None, Reading(201, 2050), Reading(201, 2500)},
        dh \in {None} \cup {Series(pts) : pts \in SeriesSet},
        lh \in {None, Series(Ramp(6, 2000, 0)), Series(Ramp(7, 1000, 300)), Series(Ramp(3, 2000, 0))}}

\* a render computes the values the hook returns and the Lysaker label
Derive ==
    /\ res' = [kind |-> "derived",
               drobakSlope |-> drobakSlope(args.historic),
               lysakerSlope |-> lysakerSlope(args.historic),
               isBuildingAtDrobak |-> isBuildingAtDrobak(args.current, args.historic),
               etaMinutes |-> etaMinutes(args.current, args.historic),
               lysakerBuilding |-> lysakerTrendBuilding(args.current, args.historic)]
    /\ UNCHANGED args
    /\ TrackerUnchanged

\* slope with a lookback of its own
SlopeCall ==
    /\ \E lookback \in 1..(DefaultLookback + 1) :
           res' = [kind |-> "slope", series |-> drobakHist(args.historic), lookback |-> lookback,
                   slope |-> slope(drobakHist(args.historic), lookback)]
    /\ UNCHANGED args
    /\ TrackerUnchanged

InitDerived == Idle /\ args \in DerivedInputs /\ res = None
NextDerived ==
    \/ Derive
    \/ SlopeCall
SpecDerived == InitDerived /\ [][NextDerived]_vars

\* ----------------------------------------------------- the gear estimator
Weights == {-50 + 5 * i : i \in 0..60}
Winds == {-5000 + 500 * i : i \in 0..110}

GearCall ==
    /\ res' = [kind |-> "gear"] @@ recommendGear(args.weightKg, args.windMs)
    /\ UNCHANGED args
    /\ TrackerUnchanged

InitGear == Idle /\ args \in [weightKg : Weights, windMs : Winds] /\ res = None
SpecGear == InitGear /\ [][GearCall]_vars

\* ================================================================ claims

\* C1: every poll cycle, whatever mix of success, timeout, network error and
\* non-2xx its four fetches end with, lets no error escape and, once it has
\* finished on a mounted tracker, leaves a current reading and a historic
\* series stored for both stations; an entry is simulated exactly when the
\* fetch for that station and reading type failed (or no base URL is set).
C1_EveryCycleStoresBoth ==
    /\ escaped = 0
    /\ \A c \in cycles : ~c.threw
    /\ (mounted /\ nCycles > Cardinality(cycles)) =>
           \A id \in Ids :
               /\ current[id] # None /\ historic[id] # None
               /\ current[id].src = "sim" <=> ~current[id].fetched
               /\ historic[id].src = "sim" <=> ~historic[id].fetched
               /\ current[id].stationId = id

\* a finished cycle with failed and successful fetches mixed across the two
\* stations and the two reading types
C1_Witness ==
    /\ mounted
    /\ current[101] # None /\ current[201] # None
    /\ current[101].src = "sim" /\ historic[101].src = "api"
    /\ current[201].src = "api" /\ historic[201].src = "sim"
    /\ current[101].cyc = current[201].cyc

\* C2: a simulated current reading is seeded with the reading stored for that
\* station at that moment (none only while none has been stored), in every
\* cycle.
C2_SeededWithStored ==
    \A id \in Ids :
        (current[id] # None /\ current[id].src = "sim") =>
            current[id].seedCyc = current[id].storedCyc

\* C3: in every state a reader sees, a station's current reading and its
\* historic series come from the same poll cycle (or are both absent).
C3_PairFromOneCycle ==
    \A id \in Ids : CycOf(current[id]) = CycOf(historic[id])

\* a later cycle has replaced the pair of an earlier one while another
\* invocation is still in flight
C3_Witness ==
    /\ current[101] # None /\ historic[101] # None
    /\ current[101].cyc = 2 /\ historic[101].cyc = 2
    /\ cycles # {}

\* C4: after a teardown (unmount, or a change of baseUrl) no new cycle starts
\* from the torn down effect, a cycle in flight at the teardown never writes
\* its results to the tracker state, and no error escapes.
C4_TeardownAbandonsInFlight ==
    [][/\ escaped' = escaped
       /\ (~mounted => nCycles' = nCycles)
       /\ (current' # current =>
              \A id \in Ids : current'[id] # None => current'[id].gen = effectGen')]_vars

\* C5 (as stated): a notification is raised only when at least 5 minutes have
\* passed since the last one and isBuildingAtDrobak has just turned from false
\* to true with a non-null etaMinutes.
C5_OnlyOnTransition ==
    [][toasts' # toasts =>
          /\ now' - lastAlert >= FiveMinutes
          /\ ~isBuildingAtDrobak(current, historic)
          /\ isBuildingAtDrobak(current', historic')
          /\ ~etaMinutes(current', historic').null]_vars

\* C5 (amended): a notification is raised only when the alert effect runs
\* again because isBuildingAtDrobak or etaMinutes changed, isBuildingAtDrobak
\* is true, etaMinutes is not null and more than 5 minutes have passed since
\* the last notification; it records the time of the notification.
C5_ThrottledWhileBuilding ==
    [][toasts' # toasts =>
          /\ toasts' = toasts + 1
          /\ now' - lastAlert > FiveMinutes
          /\ lastAlert' = now'
          /\ isBuildingAtDrobak(current', historic')
          /\ ~etaMinutes(current', historic').null
          /\ \/ ~isBuildingAtDrobak(current, historic)
             \/ etaMinutes(current', historic') # etaMinutes(current, historic)]_vars

\* a second notification, more than 5 minutes after the first
C5_Witness == toasts = 2 /\ lastAlert > 2 * FiveMinutes

\* C6: every reading simulateCurrent produces, seeded or not, has
\* gust >= speed >= min >= 0 and a speed of at most 20 m/s.
C6_SimulatedReadingOrdered ==
    res # None =>
        /\ res.gust >= res.speed
        /\ res.speed >= res.min
        /\ res.min >= 0
        /\ res.speed >= 0 /\ res.speed <= 20000

\* a seeded reading held at the ceiling of 20 m/s
C6_Witness == res # None /\ res.speed = 20000 /\ res.gust > res.speed /\ res.min < res.speed

\* C7: etaMinutes is null when isBuildingAtDrobak is false or the upstream
\* speed is at most 0.5 m/s (also without an upstream reading); otherwise it
\* is the positive integer nearest to 25 / clamp(10 + 1.5 * speed, 8, 45) * 60
\* (79 for 6 m/s).
C7_EtaNullOrRounded ==
    (res # None /\ res.kind = "derived") =>
        LET d == args.current[101]
            spd == IF d = None THEN 0 ELSE d.speed
            eta == res.etaMinutes
            front == IF 20000 + 3 * spd < 16000 THEN 16000
                     ELSE IF 20000 + 3 * spd > 90000 THEN 90000 ELSE 20000 + 3 * spd
        IN  /\ (~res.isBuildingAtDrobak \/ spd <= 500) => eta.null
            /\ (res.isBuildingAtDrobak /\ spd > 500) =>
                   /\ ~eta.null
                   /\ eta.min > 0
                   /\ (2 * eta.min - 1) * front <= 2 * 25 * 60 * 2000
                   /\ 2 * 25 * 60 * 2000 < (2 * eta.min + 1) * front
                   /\ spd = 6000 => eta.min = 79

\* upstream speed 6 m/s with slope 0.1 gives 79 minutes
C7_Witness ==
    /\ res # None /\ res.kind = "derived"
    /\ args.current[101] # None /\ args.current[101].speed = 6000
    /\ res.drobakSlope = [num |-> 600, den |-> 6]
    /\ res.etaMinutes = [null |-> FALSE, min |-> 79]

\* C8: for every weight and wind, negative and extreme ones included,
\* recommendGear returns a sail of 4.0 to 9.8 m2 in steps of 0.2, a board of
\* 58 to 100 cm and a fin of 28 to 52 cm; weight 200 with wind 50 saturates
\* all three, weight 85 with wind 6 gives 9.2, 92 and 41.
C8_GearWithinBounds ==
    (res # None /\ res.kind = "gear") =>
        /\ res.sailM2 >= 4000 /\ res.sailM2 <= 9800 /\ res.sailM2 % 200 = 0
        /\ res.boardWidthCm >= 58 /\ res.boardWidthCm <= 100
        /\ res.finCm >= 28 /\ res.finCm <= 52
        /\ (args.weightKg = 200 /\ args.windMs = 50000) =>
               (res.sailM2 = 4000 /\ res.boardWidthCm = 58 /\ res.finCm = 28)
        /\ (args.weightKg = 85 /\ args.windMs = 6000) =>
               (res.sailM2 = 9200 /\ res.boardWidthCm = 92 /\ res.finCm = 41)

\* the recommendation for 85 kg in 6 m/s
C8_Witness ==
    /\ res # None /\ res.kind = "gear"
    /\ args.weightKg = 85 /\ args.windMs = 6000
    /\ res.sailM2 = 9200 /\ res.boardWidthCm = 92 /\ res.finCm = 41

\* C9: slope is exactly 0 for a series shorter than the lookback (an empty or
\* missing one included); otherwise it is (speed of the last point - speed of
\* the first of the last lookback points) / lookback; the hook's slopes use
\* the lookback 6.
C9_SlopeOfTail ==
    /\ (res # None /\ res.kind = "slope") =>
           LET n == Len(res.series)
           IN  IF n < res.lookback
               THEN res.slope.num = 0
               ELSE /\ res.slope.den = res.lookback
                    /\ res.slope.num = res.series[n].speed - res.series[n - res.lookback + 1].speed
    /\ (res # None /\ res.kind = "derived") =>
           LET h == args.historic[101]
               n == IF h = None THEN 0 ELSE Len(h.pts)
           IN  IF n < 6
               THEN res.drobakSlope.num = 0
               ELSE res.drobakSlope = [num |-> h.pts[n].speed - h.pts[n - 5].speed, den |-> 6]

\* a slope over the last 3 of 7 points
C9_Witness ==
    /\ res # None /\ res.kind = "slope"
    /\ Len(res.series) = 7 /\ res.lookback = 3
    /\ res.slope = [num |-> 600, den |-> 3]

\* C10 (as stated): Lysaker is reported as "Building" exactly when
\* slope(lysakerHist) > 0.08.
C10_LabelIsSlope ==
    (res # None /\ res.kind = "derived") =>
        (res.lysakerBuilding <=> res.lysakerSlope.num * 100 > 8 * res.lysakerSlope.den * 1000)

\* C10 (amended): Lysaker is reported as "Building" exactly when its current
\* speed (0 without a reading) exceeds the speed of the sixth point from the
\* end of its series (0 with fewer than six points) by more than 0.08 m/s.
C10_LabelIsDifference ==
    (res # None /\ res.kind = "derived") =>
        LET l == args.current[201]
            h == args.historic[201]
            n == IF h = None THEN 0 ELSE Len(h.pts)
            spd == IF l = None THEN 0 ELSE l.speed
            sixth == IF n >= 6 THEN h.pts[n - 5].speed ELSE 0
        IN  res.lysakerBuilding <=> (spd - sixth) * 100 > 8 * 1000

\* "Building" on a flat series: the reading is 0.5 m/s above the sixth point
\* from the end while the slope is 0
C10_Witness ==
    /\ res # None /\ res.kind = "derived"
    /\ res.lysakerBuilding
    /\ res.lysakerSlope.num = 0
    /\ args.historic[201] # None /\ Len(args.historic[201].pts) = 6

\* C11: polling is one thread of control: a poll cycle starts only after the
\* cycle before it has published, so that (with every fetch bounded by the
\* 8-second timeout and the timer firing every 30 seconds) the readings
\* stored for a station are never overwritten by a cycle of the same polling
\* effect that started earlier than the cycle whose readings are stored.
C11_NeverOverwrittenByEarlierCycle ==
    [][\A id \in Ids :
          (current[id] # None /\ current'[id] # None /\ current'[id].gen = current[id].gen)
              => current'[id].cyc >= current[id].cyc]_vars

====
